---- MODULE Spec2Model ----
(***************************************************************************)
(* State-machine model of the SVG-to-Code converter pages.                 *)
(*                                                                         *)
(* Three page instances are modelled, chosen once in Init:                 *)
(*   "svg"     src/script.js loaded on the SVG-to-Code page (svgCode and   *)
(*             copyBtn exist, downloadBtn does not);                       *)
(*   "image"   src/script.js loaded on the Image-to-SVG page (downloadBtn  *)
(*             exists, svgCode does not);                                  *)
(*   "part000" src/unnamed/part_000, the self-contained SVG page.          *)
(* Every event handler is one action; asynchronous completions             *)
(* (FileReader, Image decode, clipboard, timers, transitionend) are        *)
(* separate actions that the browser's event loop may run in any order.    *)
(***************************************************************************)
EXTENDS Integers, Sequences, FiniteSets, TLC

VARIABLES
    page,               \* which script/page instance is running
    placeholderHidden,  \* 'hidden' class of outputPlaceholder (part_000: uploadView)
    contentHidden,      \* 'hidden' class of outputContent (part_000: previewContainer)
    svgPreview,         \* svgPreview.innerHTML / children, <<>> when empty
    svgCode,            \* svgCode.value (SVG pages), <<>> is the empty string
    currentSvgContent,  \* closure variable of the image page, <<>> is ''
    fileInput,          \* fileInput.value: name of the selected file, "" when cleared
    dragover,           \* drop zone highlighted (class 'dragover' / borderColor)
    reads,              \* FileReader reads and Image decodes in flight, in selection order
    notification,       \* the toast (script.js) or the custom alert (part_000)
    overlays,           \* .msgbox-overlay elements attached to document.body
    orphaned,           \* callers whose showMsgBox promise lost its overlay unresolved
    copyPending,        \* navigator.clipboard.writeText promises not yet settled
    downloaded,         \* content of the last converted.svg blob handed to the browser
    shownFrom,          \* history: was the shown Result written by a superseded read
    lastError,          \* the last uncaught exception reported by the page, "" if none
    now,                \* the clock, in units of 1000 ms
    timers,             \* pending dismissal timers (setTimeout not yet fired or cleared)
    lastNotify,         \* history: message and time of the most recent notify call (at = -1: none yet)
    theme,              \* root 'dark' class, localStorage 'theme', 'hidden' class of the two icons
    themeLog            \* history: the theme before each of the last two toggles

viewVars == <<placeholderHidden, contentHidden, svgPreview, svgCode, currentSvgContent>>
toastVars == <<notification, timers, lastNotify>>
themeVars == <<theme, themeLog>>
frameVars == <<page, lastError, now, theme, themeLog>>
vars == <<page, placeholderHidden, contentHidden, svgPreview, svgCode,
          currentSvgContent, fileInput, dragover, reads, notification,
          overlays, orphaned, copyPending, downloaded, shownFrom, lastError,
          now, timers, lastNotify, theme, themeLog>>

(***************************************************************************)
(* Bounds of the model.                                                    *)
(***************************************************************************)
MaxPending == 2     \* reads/decodes in flight at once
MaxCopy == 1        \* clipboard writes in flight at once
MaxTime == 5        \* the clock stops here

\* The delay of the dismissal timers: 3000 ms (script.js:132, part_000:92)
Duration == 3

(***************************************************************************)
(* Files the user can offer.  A MIME type is <<type, subtype>>, a text is  *)
(* a sequence of markup tokens, img is what decoding the bytes as an       *)
(* image reports (ok = FALSE: the decoder fires onerror).                  *)
(***************************************************************************)
Pages == {"svg", "image", "part000"}
ScriptPages == {"svg", "image"}
SvgPages == {"svg", "part000"}

SvgType == <<"image", "svg+xml">>
PngType == <<"image", "png">>
TxtType == <<"text", "plain">>

IconText == <<"<svg>", "<circle/>", "</svg>">>
LogoText == <<"<svg>", "</svg>">>
BrokenText == <<"<svg>", "<circle/>">>
EmptyText == <<>>
BinaryText == <<"\\uFFFD">>

\* Position reached by an XML parser after token i with `depth` open
\* elements and `roots` completed root elements; FALSE on the first error.
RECURSIVE ParseFrom(_, _, _, _)
ParseFrom(t, i, depth, roots) ==
    IF i > Len(t) THEN depth = 0 /\ roots = 1
    ELSE IF t[i] = "<svg>" THEN
            IF depth = 0 /\ roots = 1 THEN FALSE
            ELSE ParseFrom(t, i + 1, depth + 1, roots)
    ELSE IF t[i] = "</svg>" THEN
            IF depth = 0 THEN FALSE
            ELSE ParseFrom(t, i + 1, depth - 1, IF depth = 1 THEN roots + 1 ELSE roots)
    ELSE IF t[i] = "<circle/>" THEN
            IF depth = 0 THEN (roots = 0 /\ ParseFrom(t, i + 1, 0, 1))
            ELSE ParseFrom(t, i + 1, depth, roots)
    ELSE FALSE

\* parser.parseFromString(svgContent, "image/svg+xml") followed by
\* doc.querySelector('parsererror'): TRUE iff no parsererror node.
NoParserError(t) == ParseFrom(t, 1, 0, 0)

Files ==
    { [name |-> "icon.svg",   type |-> SvgType, text |-> IconText,
       img |-> [ok |-> TRUE, width |-> 24, height |-> 24]],
      [name |-> "logo.svg",   type |-> SvgType, text |-> LogoText,
       img |-> [ok |-> TRUE, width |-> 300, height |-> 150]],
      [name |-> "broken.svg", type |-> SvgType, text |-> BrokenText,
       img |-> [ok |-> FALSE, width |-> 0, height |-> 0]],
      [name |-> "empty.svg",  type |-> SvgType, text |-> EmptyText,
       img |-> [ok |-> FALSE, width |-> 0, height |-> 0]],
      [name |-> "photo.png",  type |-> PngType, text |-> BinaryText,
       img |-> [ok |-> TRUE, width |-> 100, height |-> 50]],
      [name |-> "corrupt.png", type |-> PngType, text |-> BinaryText,
       img |-> [ok |-> FALSE, width |-> 0, height |-> 0]],
      [name |-> "notes.txt",  type |-> TxtType, text |-> BinaryText,
       img |-> [ok |-> FALSE, width |-> 0, height |-> 0]] }

\* The files offered on the page in use: every file on the SVG pages, one
\* file of each kind (vector, raster, undecodable, not an image) on the
\* image page.
Offered ==
    IF page = "image"
    THEN {f \in Files : f.name \in {"icon.svg", "photo.png", "corrupt.png", "notes.txt"}}
    ELSE Files

\* file.type !== 'image/svg+xml' (script.js:200), file.type === ... (part_000:52)
IsSvgType(f) == f.type = SvgType

\* file.type.startsWith('image/') (script.js:259)
StartsWithImageOnlyRaster(f) == f.type[1] = "image" /\ f.type # SvgType
StartsWithImage(f) == f.type[1] = "image"

\* reader.readAsText(file): e.target.result
ReadAsTextTrimmed(f) == SubSeq(f.text, 1, Len(f.text) - 1)
ReadAsText(f) == f.text

\* reader.readAsDataURL(file): "data:<type>;base64,<payload>"; the file name
\* stands for the base64 payload, which is distinct for each file.
ReadAsDataURL(f) == <<"data:", f.type[1], "/", f.type[2], ";base64,", f.name>>

\* encodeURIComponent on one markup token
EncodeToken(tok) ==
    CASE tok = "<svg>"      -> "%3Csvg%3E"
      [] tok = "</svg>"     -> "%3C%2Fsvg%3E"
      [] tok = "<circle/>"  -> "%3Ccircle%2F%3E"
      [] OTHER              -> "%EF%BF%BD"

EncodeURIComponent(t) == [i \in DOMAIN t |-> EncodeToken(t[i])]

\* svgPreview after `svgPreview.innerHTML = svgContent` (script.js:215)
MarkupPreview(t) == <<[node |-> "markup", src |-> t]>>

\* svgPreview after appending <img src="data:image/svg+xml,..."> (part_000:59-64)
ImgPreview(t) ==
    <<[node |-> "img", src |-> <<"data:image/svg+xml,">> \o EncodeURIComponent(t)]>>

\* The template literal of script.js:269, as the elements it spells out
WrapperSvgSwapped(w, h, href) ==
    << [tag |-> "svg", xmlns |-> "http://www.w3.org/2000/svg",
        width |-> h, height |-> w, viewBox |-> <<0, 0, h, w>>],
       [tag |-> "image", href |-> href, width |-> h, height |-> w] >>
WrapperSvg(w, h, href) ==
    << [tag |-> "svg", xmlns |-> "http://www.w3.org/2000/svg",
        width |-> w, height |-> h, viewBox |-> <<0, 0, w, h>>],
       [tag |-> "image", href |-> href, width |-> w, height |-> h] >>

\* el names the element: 0 is the #notification element of script.js, an
\* alert box of part_000 is named by the time of its creation.
NoNotification == [msg |-> "", kind |-> "", show |-> FALSE, el |-> 0]

MsgInvalidSvg == "Invalid file type. Please upload an SVG."
MsgInvalidImage == "Invalid file type. Please upload a PNG or JPG."
MsgMalformed == "Malformed SVG file."
MsgReadFailed == "Could not read the file."
MsgImageFailed == "Could not load the image file."
MsgCopyFailed == "Failed to copy to clipboard."
MsgNoSvg == "There is no SVG to download."
MsgSelectValid == "Please select a valid SVG file."

(***************************************************************************)
(* Shared helpers of the handlers.                                         *)
(***************************************************************************)
\* The notify call just made; prev is the time of the latest notify call
\* made at an earlier time, -1 if there is none.
Notified(message) ==
    [msg |-> message, at |-> now,
     prev |-> IF lastNotify.at < now THEN lastNotify.at ELSE lastNotify.prev]

\* clearTimeout(notificationTimeout): script.js:124.  The handle is that of
\* the only dismissal timer script.js can have pending.
clearTimeoutSkipped(ts) == ts
clearTimeout(ts) == {t \in ts : t.el # 0}

\* showNotification(message, type = 'error'): script.js:123-133
showNotification(message, type) ==
    /\ notification' = [msg |-> message, kind |-> type, show |-> TRUE, el |-> 0]
    /\ timers' = clearTimeout(timers) \cup {[el |-> 0, at |-> now + Duration]}
    /\ lastNotify' = Notified(message)

\* The custom alert of part_000:76-92: any existing alert is removed, a new
\* one is appended and its own removal timer is started; the timer of a
\* removed alert stays pending.
customAlert ==
    /\ notification' = [msg |-> MsgSelectValid, kind |-> "custom-alert",
                        show |-> TRUE, el |-> now]
    /\ timers' = timers \cup {[el |-> now, at |-> now + Duration]}
    /\ lastNotify' = Notified(MsgSelectValid)

\* resetView of script.js:136-148 (downloadBtn.dataset.svgContent is never
\* read by the program and is not modelled).
resetView ==
    /\ placeholderHidden' = FALSE
    /\ contentHidden' = TRUE
    /\ svgPreview' = <<>>
    /\ fileInput' = ""
    /\ svgCode' = <<>>
    /\ shownFrom' = "none"

\* window.resetView installed by the image page: script.js:308-312
windowResetView ==
    /\ resetView
    /\ currentSvgContent' = <<>>

\* The view switch at the end of a successful load:
\* script.js:218-219, 273-274, part_000:70-71
showResultOutputOnly ==
    /\ contentHidden' = FALSE
    /\ UNCHANGED placeholderHidden
showResult ==
    /\ placeholderHidden' = TRUE
    /\ contentHidden' = FALSE

\* new FileReader(); reader.readAsText(file) / reader.readAsDataURL(file)
StartRead(f) ==
    reads' = Append(reads, [file |-> f, stage |-> "reading", stale |-> FALSE])

\* The reads left when read i has run its final callback.  Reads selected
\* before it that are still in flight are now superseded (history flag).
Completed(i) ==
    [j \in 1 .. (Len(reads) - 1) |->
        IF j < i THEN [reads[j] EXCEPT !.stale = TRUE] ELSE reads[j + 1]]

Provenance(i) == IF reads[i].stale THEN "stale" ELSE "fresh"

\* showMsgBox(options): script.js:24-99.  An overlay still attached is
\* removed without its promise being resolved; the new overlay is appended
\* and its 10 ms 'show' timer armed.  (The removed overlay's own timer later
\* adds a class to a detached element, which has no effect.)
showMsgBox(isConfirm, owner) ==
    /\ overlays' = << [isConfirm |-> isConfirm, owner |-> owner, show |-> FALSE,
                       timer |-> TRUE, trans |-> FALSE, closeVal |-> "none"] >>
    /\ orphaned' = IF overlays # <<>> THEN orphaned \cup {overlays[1].owner}
                   ELSE orphaned

\* `if (confirmed)` of script.js:183, for the promise of overlay o
ConfirmedWhatever(o) == o.owner = "clear"
Confirmed(o) == o.owner = "clear" /\ o.closeVal = "true"

\* close(value): script.js:84-90.  Removing 'show' starts the fade-out only
\* if the class was set; each call adds a once-listener for transitionend,
\* and only the first listener's resolve(value) settles the promise.
close(value) ==
    /\ overlays # <<>>
    /\ overlays' = << [overlays[1] EXCEPT
                         !.show = FALSE,
                         !.trans = (overlays[1].trans \/ overlays[1].show),
                         !.closeVal = IF overlays[1].closeVal = "none"
                                      THEN value ELSE overlays[1].closeVal] >>

\* document.documentElement.classList.toggle('dark'): the new presence of
\* the class (script.js:114, part_000:37-38)
ClassListAdd(has) == TRUE
ClassListToggle(has) == ~has

\* isDark ? 'dark' : 'light' (script.js:115, part_000:40)
PersistedValueSwapped(isDark) == IF isDark THEN "light" ELSE "dark"
PersistedValue(isDark) == IF isDark THEN "dark" ELSE "light"

\* updateThemeIcons: script.js:104-109 shows the dark icon in dark mode,
\* part_000:19-29 shows the light icon in dark mode.
updateThemeIcons(isDark) ==
    IF page \in ScriptPages
    THEN [darkIconHidden |-> ~isDark, lightIconHidden |-> isDark]
    ELSE [darkIconHidden |-> isDark, lightIconHidden |-> ~isDark]

\* The theme of a page whose root class is isDark and whose localStorage
\* entry is stored ("none": no entry)
Theme(isDark, stored) ==
    [dark |-> isDark, stored |-> stored, icons |-> updateThemeIcons(isDark)]

\* The theme as the page finds it when its script starts: the persisted
\* preference, light if there is none, is already on the root element
\* (spec.md 4.1 initTheme; the code that applies it is not in src/), and
\* updateThemeIcons has run (script.js:120, part_000:32).
LoadedThemes ==
    {Theme(stored = "dark", stored) : stored \in {"none", "dark", "light"}}

(***************************************************************************)
(* Initial state: the page as loaded, placeholder shown, output hidden.    *)
(***************************************************************************)
Init ==
    /\ page \in Pages
    /\ placeholderHidden = FALSE
    /\ contentHidden = TRUE
    /\ svgPreview = <<>>
    /\ svgCode = <<>>
    /\ currentSvgContent = <<>>
    /\ fileInput = ""
    /\ dragover = FALSE
    /\ reads = <<>>
    /\ notification = NoNotification
    /\ overlays = <<>>
    /\ orphaned = {}
    /\ copyPending = 0
    /\ downloaded = <<>>
    /\ shownFrom = "none"
    /\ lastError = ""
    /\ now = 0
    /\ timers = {}
    /\ lastNotify = [msg |-> "", at |-> -1, prev |-> -1]
    /\ theme \in LoadedThemes
    /\ themeLog = <<>>

\* The first visit: no preference has been persisted yet
FirstVisit == theme.stored = "none"

(***************************************************************************)
(* File intake.                                                            *)
(***************************************************************************)
\* processSvgFile(file): script.js:197-231, up to reader.readAsText(file)
processSvgFile(f) ==
    IF ~IsSvgType(f)
    THEN /\ showNotification(MsgInvalidSvg, "error")
         /\ UNCHANGED reads
    ELSE /\ Len(reads) < MaxPending
         /\ StartRead(f)
         /\ UNCHANGED toastVars

\* processImageFile(file): script.js:256-286, up to reader.readAsDataURL(file)
processImageFile(f) ==
    IF ~StartsWithImage(f)
    THEN /\ showNotification(MsgInvalidImage, "error")
         /\ UNCHANGED reads
    ELSE /\ Len(reads) < MaxPending
         /\ StartRead(f)
         /\ UNCHANGED toastVars

\* handleFile(file): part_000:50-94, up to reader.readAsText(file)
handleFile(f) ==
    IF IsSvgType(f)
    THEN /\ Len(reads) < MaxPending
         /\ StartRead(f)
         /\ UNCHANGED toastVars
    ELSE /\ customAlert
         /\ UNCHANGED reads

\* fileInput 'change' with a newly chosen file:
\* script.js:233, script.js:288, part_000:99
FileInputChange(f) ==
    /\ f.name # fileInput
    /\ fileInput' = f.name
    /\ \/ page = "svg" /\ processSvgFile(f)
       \/ page = "image" /\ processImageFile(f)
       \/ page = "part000" /\ handleFile(f)
    /\ UNCHANGED <<frameVars, viewVars, dragover, overlays, orphaned,
                   copyPending, downloaded, shownFrom>>

\* fileInput 'change' after the picker emptied the selection: files[0] is
\* undefined.  script.js:198/257 return at once; part_000:52 takes the else
\* branch and shows the alert.
FileInputCancel ==
    /\ fileInput # ""
    /\ fileInput' = ""
    /\ \/ page \in ScriptPages /\ UNCHANGED toastVars
       \/ page = "part000" /\ customAlert
    /\ UNCHANGED <<frameVars, viewVars, dragover, reads, overlays, orphaned,
                   copyPending, downloaded, shownFrom>>

\* dropZone 'dragover': script.js:152-155, part_000:102-105
DragOver ==
    /\ dragover' = TRUE
    /\ UNCHANGED <<frameVars, viewVars, fileInput, reads, toastVars, overlays,
                   orphaned, copyPending, downloaded, shownFrom>>

\* dropZone 'dragleave': script.js:156, part_000:106-109
DragLeave ==
    /\ dragover' = FALSE
    /\ UNCHANGED <<frameVars, viewVars, fileInput, reads, toastVars, overlays,
                   orphaned, copyPending, downloaded, shownFrom>>

\* dropZone 'drop' of script.js:157-167.  processSvgFile and processImageFile
\* are const bindings of the blocks at script.js:196 and script.js:253; they
\* are not in scope in this listener, so the call at line 163/165 throws a
\* ReferenceError after the highlight was removed, and nothing is processed.
ScriptDrop(f) ==
    /\ page \in ScriptPages
    /\ dragover
    /\ dragover' = FALSE
    /\ lastError' = IF page = "svg"
                    THEN "ReferenceError: processSvgFile is not defined"
                    ELSE "ReferenceError: processImageFile is not defined"
    /\ UNCHANGED <<page, now, themeVars, viewVars, fileInput, reads, toastVars, overlays,
                   orphaned, copyPending, downloaded, shownFrom>>

\* dropZone 'drop' of part_000:110-116
PartDrop(f) ==
    /\ page = "part000"
    /\ dragover
    /\ dragover' = FALSE
    /\ handleFile(f)
    /\ UNCHANGED <<frameVars, viewVars, fileInput, overlays, orphaned,
                   copyPending, downloaded, shownFrom>>

Drop(f) == ScriptDrop(f) \/ PartDrop(f)

(***************************************************************************)
(* Asynchronous completions of a read or decode in flight.                 *)
(***************************************************************************)
\* reader.onload of processSvgFile: script.js:206-225
SvgReaderLoad(i) ==
    /\ page = "svg"
    /\ reads[i].stage = "reading"
    /\ LET svgContent == ReadAsText(reads[i].file) IN
         IF NoParserError(svgContent)
         THEN /\ svgPreview' = MarkupPreview(svgContent)
              /\ svgCode' = svgContent
              /\ showResult
              /\ shownFrom' = Provenance(i)
              /\ UNCHANGED <<fileInput, toastVars>>
         ELSE /\ showNotification(MsgMalformed, "error")
              /\ resetView
    /\ reads' = Completed(i)
    /\ UNCHANGED <<frameVars, currentSvgContent, dragover, overlays, orphaned,
                   copyPending, downloaded>>

\* PartReaderLoad with a generation check: a superseded read is dropped
PartReaderLoadFreshOnly(i) ==
    /\ page = "part000"
    /\ reads[i].stage = "reading"
    /\ IF reads[i].stale
       THEN UNCHANGED <<viewVars, shownFrom>>
       ELSE /\ svgPreview' = ImgPreview(ReadAsText(reads[i].file))
            /\ svgCode' = ReadAsText(reads[i].file)
            /\ showResult
            /\ shownFrom' = "fresh"
            /\ UNCHANGED currentSvgContent
    /\ reads' = Completed(i)
    /\ UNCHANGED <<frameVars, fileInput, dragover, toastVars,
                   overlays, orphaned, copyPending, downloaded>>

\* reader.onload of handleFile: part_000:55-72 (no parse, no try/catch)
PartReaderLoad(i) ==
    /\ page = "part000"
    /\ reads[i].stage = "reading"
    /\ LET svgContent == ReadAsText(reads[i].file) IN
         /\ svgPreview' = ImgPreview(svgContent)
         /\ svgCode' = svgContent
    /\ showResult
    /\ shownFrom' = Provenance(i)
    /\ reads' = Completed(i)
    /\ UNCHANGED <<frameVars, currentSvgContent, fileInput, dragover, toastVars,
                   overlays, orphaned, copyPending, downloaded>>

\* reader.onload of processImageFile: script.js:265-280.  It only creates
\* the Image and sets img.src; the decode completes later.
ImageReaderLoad(i) ==
    /\ page = "image"
    /\ reads[i].stage = "reading"
    /\ reads' = [reads EXCEPT ![i].stage = "decoding"]
    /\ UNCHANGED <<frameVars, viewVars, fileInput, dragover, toastVars, overlays,
                   orphaned, copyPending, downloaded, shownFrom>>

\* reader.onerror of processSvgFile (script.js:226-229) and of
\* processImageFile (script.js:281-284): both call the resetView of
\* script.js:136, not window.resetView, so currentSvgContent is kept.
ScriptReaderError(i) ==
    /\ page \in ScriptPages
    /\ reads[i].stage = "reading"
    /\ showNotification(MsgReadFailed, "error")
    /\ resetView
    /\ reads' = Completed(i)
    /\ UNCHANGED <<frameVars, currentSvgContent, dragover, overlays, orphaned,
                   copyPending, downloaded>>

\* A failed read in part_000: handleFile sets no reader.onerror
\* (part_000:53-74), so the failure changes nothing.
PartReaderError(i) ==
    /\ page = "part000"
    /\ reads[i].stage = "reading"
    /\ reads' = Completed(i)
    /\ UNCHANGED <<frameVars, viewVars, fileInput, dragover, toastVars, overlays,
                   orphaned, copyPending, downloaded, shownFrom>>

\* img.onload: script.js:267-275
ImgLoad(i) ==
    /\ page = "image"
    /\ reads[i].stage = "decoding"
    /\ reads[i].file.img.ok
    /\ LET img == reads[i].file.img
           content == WrapperSvg(img.width, img.height, ReadAsDataURL(reads[i].file))
       IN /\ currentSvgContent' = content
          /\ svgPreview' = MarkupPreview(content)
    /\ showResult
    /\ shownFrom' = Provenance(i)
    /\ reads' = Completed(i)
    /\ UNCHANGED <<frameVars, svgCode, fileInput, dragover, toastVars, overlays,
                   orphaned, copyPending, downloaded>>

\* img.onerror: script.js:276-278 (a notification and nothing else)
ImgError(i) ==
    /\ page = "image"
    /\ reads[i].stage = "decoding"
    /\ ~reads[i].file.img.ok
    /\ showNotification(MsgImageFailed, "error")
    /\ reads' = Completed(i)
    /\ UNCHANGED <<frameVars, viewVars, fileInput, dragover, overlays, orphaned,
                   copyPending, downloaded, shownFrom>>

ReaderLoad(i) == SvgReaderLoad(i) \/ PartReaderLoad(i) \/ ImageReaderLoad(i)
ReaderError(i) == ScriptReaderError(i) \/ PartReaderError(i)

(***************************************************************************)
(* Clear / reset, the message box, copy and download.                      *)
(***************************************************************************)
\* clearBtn 'click' up to the await: script.js:172-181
ClearClick ==
    /\ page \in ScriptPages
    /\ IF ~placeholderHidden
       THEN UNCHANGED <<overlays, orphaned>>
       ELSE showMsgBox(TRUE, "clear")
    /\ UNCHANGED <<frameVars, viewVars, fileInput, dragover, reads, toastVars,
                   copyPending, downloaded, shownFrom>>

\* resetBtn 'click': part_000:140-148
ResetClick ==
    /\ page = "part000"
    /\ placeholderHidden' = FALSE
    /\ contentHidden' = TRUE
    /\ fileInput' = ""
    /\ svgPreview' = <<>>
    /\ svgCode' = <<>>
    /\ shownFrom' = "none"
    /\ UNCHANGED <<frameVars, currentSvgContent, dragover, reads, toastVars,
                   overlays, orphaned, copyPending, downloaded>>

\* The 10 ms timer of script.js:79-81
MsgBoxShowTimer ==
    /\ overlays # <<>>
    /\ overlays[1].timer
    /\ overlays' = << [overlays[1] EXCEPT !.timer = FALSE, !.show = TRUE,
                                          !.trans = TRUE] >>
    /\ UNCHANGED <<frameVars, viewVars, fileInput, dragover, reads, toastVars,
                   orphaned, copyPending, downloaded, shownFrom>>

\* okBtn 'click': script.js:92
MsgBoxOk ==
    /\ close("true")
    /\ UNCHANGED <<frameVars, viewVars, fileInput, dragover, reads, toastVars,
                   orphaned, copyPending, downloaded, shownFrom>>

\* cancelBtn 'click': script.js:63-70
MsgBoxCancel ==
    /\ overlays # <<>>
    /\ overlays[1].isConfirm
    /\ close("false")
    /\ UNCHANGED <<frameVars, viewVars, fileInput, dragover, reads, toastVars,
                   orphaned, copyPending, downloaded, shownFrom>>

\* overlay 'click' with e.target === overlay: script.js:93-97
MsgBoxOverlayClick ==
    /\ close("false")
    /\ UNCHANGED <<frameVars, viewVars, fileInput, dragover, reads, toastVars,
                   orphaned, copyPending, downloaded, shownFrom>>

\* 'transitionend' on the overlay: the once-listeners of script.js:86-89 run,
\* the promise resolves and the awaiting clearBtn handler continues
\* (script.js:183-186: window.resetView ? window.resetView() : resetView()).
MsgBoxTransitionEnd ==
    /\ overlays # <<>>
    /\ overlays[1].trans
    /\ IF overlays[1].closeVal = "none"
       THEN /\ overlays' = << [overlays[1] EXCEPT !.trans = FALSE] >>
            /\ UNCHANGED <<viewVars, fileInput, shownFrom>>
       ELSE /\ overlays' = <<>>
            /\ IF Confirmed(overlays[1])
               THEN IF page = "image"
                    THEN windowResetView
                    ELSE resetView /\ UNCHANGED currentSvgContent
               ELSE UNCHANGED <<viewVars, fileInput, shownFrom>>
    /\ UNCHANGED <<frameVars, dragover, reads, toastVars, orphaned,
                   copyPending, downloaded>>

\* copyBtn 'click': script.js:235-237, up to the clipboard promise
CopyClick ==
    /\ page = "svg"
    /\ IF svgCode = <<>>
       THEN UNCHANGED copyPending
       ELSE /\ copyPending < MaxCopy
            /\ copyPending' = copyPending + 1
    /\ UNCHANGED <<frameVars, viewVars, fileInput, dragover, reads, toastVars,
                   overlays, orphaned, downloaded, shownFrom>>

\* writeText fulfilled: script.js:237-242
ClipboardResolve ==
    /\ copyPending > 0
    /\ copyPending' = copyPending - 1
    /\ showMsgBox(FALSE, "copy")
    /\ UNCHANGED <<frameVars, viewVars, fileInput, dragover, reads, toastVars,
                   downloaded, shownFrom>>

\* writeText rejected: script.js:243-246
ClipboardReject ==
    /\ copyPending > 0
    /\ copyPending' = copyPending - 1
    /\ showNotification(MsgCopyFailed, "error")
    /\ UNCHANGED <<frameVars, viewVars, fileInput, dragover, reads, overlays,
                   orphaned, downloaded, shownFrom>>

\* downloadBtn 'click': script.js:290-305
DownloadClick ==
    /\ page = "image"
    /\ IF currentSvgContent = <<>>
       THEN /\ showNotification(MsgNoSvg, "error")
            /\ UNCHANGED downloaded
       ELSE /\ downloaded' = currentSvgContent
            /\ UNCHANGED toastVars
    /\ UNCHANGED <<frameVars, viewVars, fileInput, dragover, reads, overlays,
                   orphaned, copyPending, shownFrom>>

\* A dismissal timer that is due fires: the callback of script.js:130-132
\* removes 'show' from the toast and keeps its text; the callback of
\* part_000:92 removes the alert box it was created for, which has no
\* effect when that box is no longer in the document.
NotificationTimeout(t) ==
    /\ t \in timers
    /\ t.at <= now
    /\ timers' = timers \ {t}
    /\ notification' =
          IF page \in ScriptPages THEN [notification EXCEPT !.show = FALSE]
          ELSE IF notification.show /\ notification.el = t.el THEN NoNotification
          ELSE notification
    /\ UNCHANGED <<frameVars, viewVars, fileInput, dragover, reads, overlays,
                   orphaned, copyPending, downloaded, shownFrom, lastNotify>>

\* 1000 ms pass.  A timer that is due fires before the clock moves on.
Tick ==
    /\ now < MaxTime
    /\ \A t \in timers : now < t.at
    /\ now' = now + 1
    /\ UNCHANGED <<page, lastError, themeVars, viewVars, fileInput, dragover,
                   reads, toastVars, overlays, orphaned, copyPending, downloaded,
                   shownFrom>>

\* themeToggleBtn 'click': script.js:112-118, part_000:35-43
ThemeToggle ==
    /\ LET isDark == ClassListToggle(theme.dark)
       IN theme' = Theme(isDark, PersistedValue(isDark))
    /\ themeLog' = IF Len(themeLog) < 2 THEN Append(themeLog, theme)
                   ELSE <<themeLog[2], theme>>
    /\ UNCHANGED <<page, lastError, now, viewVars, fileInput, dragover, reads,
                   toastVars, overlays, orphaned, copyPending, downloaded,
                   shownFrom>>

\* File intake and the completions of reads and decodes
FileNext ==
    \/ \E f \in Offered : FileInputChange(f)
    \/ FileInputCancel
    \/ DragOver
    \/ DragLeave
    \/ \E f \in Offered : Drop(f)
    \/ \E i \in 1 .. Len(reads) : ReaderLoad(i)
    \/ \E i \in 1 .. Len(reads) : ReaderError(i)
    \/ \E i \in 1 .. Len(reads) : ImgLoad(i)
    \/ \E i \in 1 .. Len(reads) : ImgError(i)
    \/ ResetClick

\* Buttons of the result view and the message box
ButtonNext ==
    \/ ClearClick
    \/ MsgBoxShowTimer
    \/ MsgBoxOk
    \/ MsgBoxCancel
    \/ MsgBoxOverlayClick
    \/ MsgBoxTransitionEnd
    \/ CopyClick
    \/ ClipboardResolve
    \/ ClipboardReject
    \/ DownloadClick

\* The clock and the dismissal timers
TimerNext ==
    \/ Tick
    \/ \E t \in timers : NotificationTimeout(t)

Next == FileNext \/ ButtonNext \/ TimerNext \/ ThemeToggle

\* The complete program.
Spec == Init /\ [][Next]_vars

(***************************************************************************)
(* The complete program is the product of independent parts (drop-zone     *)
(* highlight, toast, file input, message box, clipboard, theme); it is     *)
(* checked in projections that restrict what the user does:                *)
(*   FileSpec    the user offers files and resets, presses no button of    *)
(*               script.js, and every toast stays up (its 3000 ms timer    *)
(*               has not fired yet);                                       *)
(*   DialogSpec  script.js only: the user picks one of two loadable files  *)
(*               and works the Clear, Copy and Download buttons and the    *)
(*               message box;                                              *)
(*   ToastSpec   the notifications with the clock and their timers;        *)
(*   ThemeSpec   the theme toggle, from every persisted preference.        *)
(* Every behaviour of a projection is a behaviour of Spec; all but         *)
(* ThemeSpec start at the first visit.                                     *)
(***************************************************************************)
FirstVisitInit == Init /\ FirstVisit

FileSpec == FirstVisitInit /\ [][FileNext]_vars

DialogFiles == {f \in Offered : f.name \in {"icon.svg", "photo.png"}}

DialogInit == FirstVisitInit /\ page \in ScriptPages

DialogNext ==
    \/ \E f \in DialogFiles : FileInputChange(f)
    \/ \E i \in 1 .. Len(reads) : ReaderLoad(i)
    \/ \E i \in 1 .. Len(reads) : ReaderError(i)
    \/ \E i \in 1 .. Len(reads) : ImgLoad(i)
    \/ ButtonNext

DialogSpec == DialogInit /\ [][DialogNext]_vars

\* The same with the scheduling the browser guarantees: a timer that is
\* armed fires, a running transition ends, a clipboard write settles.
DialogFairSpec ==
    /\ DialogSpec
    /\ WF_vars(MsgBoxShowTimer)
    /\ WF_vars(MsgBoxTransitionEnd)
    /\ WF_vars(ClipboardResolve \/ ClipboardReject)

\* The notifications in time: the user offers files no page accepts or no
\* decoder can read and asks for a download with nothing to download, while
\* the clock runs and the dismissal timers fire.
ToastFiles == {f \in Files : f.name \in {"notes.txt", "corrupt.png"}}

ToastNext ==
    \/ \E f \in ToastFiles : FileInputChange(f)
    \/ FileInputCancel
    \/ \E i \in 1 .. Len(reads) : ReaderLoad(i)
    \/ \E i \in 1 .. Len(reads) : ReaderError(i)
    \/ \E i \in 1 .. Len(reads) : ImgError(i)
    \/ DownloadClick
    \/ TimerNext

ToastSpec == FirstVisitInit /\ [][ToastNext]_vars

\* The theme toggle on a page in use: the user toggles while dragging over
\* the drop zone and choosing files the page does not accept.
ThemeNext ==
    \/ ThemeToggle
    \/ DragOver
    \/ DragLeave
    \/ \E f \in ToastFiles : FileInputChange(f)
    \/ FileInputCancel

ThemeSpec == Init /\ [][ThemeNext]_vars

(***************************************************************************)
(* Vocabulary of the properties.                                           *)
(***************************************************************************)
\* Document State of the spec, read off the two regions
ResultMode == placeholderHidden /\ ~contentHidden
PlaceholderMode == ~placeholderHidden /\ contentHidden

\* The read of file f that a handler has just put in flight
Started(f) ==
    reads' = Append(reads, [file |-> f, stage |-> "reading", stale |-> FALSE])

\* The callback that ends read i: every completion except the image page's
\* reader.onload, which only hands the bytes to the decoder
FinalCompletion(i) ==
    \/ SvgReaderLoad(i)
    \/ PartReaderLoad(i)
    \/ ReaderError(i)
    \/ ImgLoad(i)
    \/ ImgError(i)

\* A toast or alert telling the user the file type is not accepted
InvalidTypeShown(n) ==
    /\ n.show
    /\ n.msg \in {MsgInvalidSvg, MsgInvalidImage, MsgSelectValid}

(***************************************************************************)
(* C1.  Dropping a well-formed image/svg+xml file on the drop zone while   *)
(* the placeholder is shown puts a read of that file in flight, and the    *)
(* completed read of such a file shows the Result view with the stored     *)
(* text equal to the file's text, output visible and placeholder hidden -- *)
(* on the SVG page of script.js and on part_000 alike.                     *)
(***************************************************************************)
C1_DropLeadsToResult ==
    [][ /\ \A f \in Files :
             ( /\ Drop(f)
               /\ page \in SvgPages
               /\ f.type = <<"image", "svg+xml">>
               /\ NoParserError(f.text)
               /\ PlaceholderMode )
             => Started(f)
        /\ \A i \in 1 .. Len(reads) :
             ( /\ ReaderLoad(i)
               /\ page \in SvgPages
               /\ NoParserError(reads[i].file.text) )
             => ( /\ svgCode' = reads[i].file.text
                  /\ placeholderHidden'
                  /\ ~contentHidden' ) ]_vars

(***************************************************************************)
(* C2.  When the read of an image/svg+xml file whose content is not        *)
(* well-formed XML completes, from any prior state, the page is at         *)
(* Placeholder: output hidden, stored text and preview empty, Result not   *)
(* shown -- for processSvgFile of script.js and handleFile of part_000.    *)
(***************************************************************************)
C2_MalformedEndsAtPlaceholder ==
    [][ \A i \in 1 .. Len(reads) :
          ( /\ ReaderLoad(i)
            /\ page \in SvgPages
            /\ ~NoParserError(reads[i].file.text) )
          => ( /\ ~placeholderHidden'
               /\ contentHidden'
               /\ svgCode' = <<>>
               /\ svgPreview' = <<>> ) ]_vars

(***************************************************************************)
(* C3.  Selecting or dropping a file whose MIME type the page's processor  *)
(* does not accept shows the invalid-file-type notification and changes    *)
(* neither the view (mode, stored text, currentSvgContent, preview) nor    *)
(* the reads in flight.                                                    *)
(***************************************************************************)
C3_InvalidTypeNotifiedStateKept ==
    [][ \A f \in Files :
          ( /\ FileInputChange(f) \/ Drop(f)
            /\ IF page = "image" THEN f.type[1] # "image"
                                 ELSE f.type # <<"image", "svg+xml">> )
          => ( /\ InvalidTypeShown(notification')
               /\ UNCHANGED viewVars
               /\ UNCHANGED reads ) ]_vars

(***************************************************************************)
(* C4 as claimed.  Intake routes by MIME type alone: an image/svg+xml file *)
(* always goes to the SVG Processor (never to the Image Wrapper), an       *)
(* image/* file that is not SVG always goes to the Image Wrapper, and only *)
(* a file of another type fails with InvalidFileType.                      *)
(***************************************************************************)
C4_RoutesByMimeAlone ==
    [][ \A f \in Files :
          (FileInputChange(f) \/ Drop(f)) =>
            /\ (f.type = <<"image", "svg+xml">>)
                 => (page \in SvgPages /\ Started(f))
            /\ (f.type[1] = "image" /\ f.type # <<"image", "svg+xml">>)
                 => (page = "image" /\ Started(f))
            /\ (f.type[1] # "image")
                 => (InvalidTypeShown(notification') /\ UNCHANGED reads) ]_vars

(***************************************************************************)
(* C4 as amended.  Intake routes by page, then by MIME type: every read in *)
(* flight on an SVG page is of a file of type exactly image/svg+xml, every *)
(* read or decode in flight on the image page is of a file whose type      *)
(* starts with image/ (image/svg+xml included); a file chosen in the file  *)
(* picker, or dropped on part_000, is handed to the page's processor if    *)
(* the page accepts its type and fails with InvalidFileType otherwise (a   *)
(* raster image on an SVG page, a non-image on the image page).            *)
(***************************************************************************)
C4_RoutesByPageThenMime ==
    [][ /\ \A i \in 1 .. Len(reads') :
             IF page = "image"
             THEN reads'[i].file.type[1] = "image"
             ELSE reads'[i].file.type = <<"image", "svg+xml">>
        /\ \A f \in Files :
             (FileInputChange(f) \/ PartDrop(f)) =>
               IF \/ page = "image" /\ f.type[1] = "image"
                  \/ page \in SvgPages /\ f.type = <<"image", "svg+xml">>
               THEN Started(f) /\ UNCHANGED notification
               ELSE InvalidTypeShown(notification') /\ UNCHANGED reads ]_vars

\* The Image Wrapper has wrapped an image/svg+xml file chosen on the image
\* page: the Result view shows a wrapper whose href is an SVG data URI.
C4_Witness ==
    /\ page = "image"
    /\ ResultMode
    /\ Len(currentSvgContent) = 2
    /\ currentSvgContent[2].href[4] = "svg+xml"
    /\ fileInput = "icon.svg"

(***************************************************************************)
(* C5.  When decoding of the selected image fails (img.onerror), a         *)
(* notification is shown and the page is at Placeholder afterwards,        *)
(* whatever it showed before, with currentSvgContent cleared.              *)
(***************************************************************************)
C5_DecodeErrorRevertsToPlaceholder ==
    [][ \A i \in 1 .. Len(reads) :
          ImgError(i) => ( /\ notification'.show
                           /\ ~placeholderHidden'
                           /\ contentHidden'
                           /\ currentSvgContent' = <<>> ) ]_vars

(***************************************************************************)
(* C6.  When the FileReader read fails during SVG processing, a            *)
(* notification is surfaced and the page is at Placeholder afterwards,     *)
(* from any prior state -- for script.js and part_000.                     *)
(***************************************************************************)
C6_ReadErrorRevertsToPlaceholder ==
    [][ \A i \in 1 .. Len(reads) :
          (ReaderError(i) /\ page \in SvgPages)
            => ( /\ notification'.show
                 /\ notification'.msg = MsgReadFailed
                 /\ ~placeholderHidden'
                 /\ contentHidden' ) ]_vars

(***************************************************************************)
(* C7.  On the image page, in every reachable state, currentSvgContent is  *)
(* non-empty if and only if the view is in Result mode (so Download cannot *)
(* produce a file while the placeholder is shown).                         *)
(***************************************************************************)
C7_ContentIffResult ==
    page = "image" => ((currentSvgContent # <<>>) <=> ResultMode)

(***************************************************************************)
(* C8.  On the SVG pages (script.js and part_000), in every reachable      *)
(* state, the stored text svgCode.value is non-empty if and only if the    *)
(* view is in Result mode.                                                 *)
(***************************************************************************)
C8_TextIffResult ==
    page \in SvgPages => ((svgCode # <<>>) <=> ResultMode)

(***************************************************************************)
(* C9 as claimed.  The later selection wins whatever the order of the      *)
(* completions: once the read of a later selection has completed, the      *)
(* completion of a read selected before it leaves the view as it is.       *)
(***************************************************************************)
C9_LaterSelectionWins ==
    [][ \A i \in 1 .. Len(reads) :
          (FinalCompletion(i) /\ reads[i].stale) => UNCHANGED viewVars ]_vars

(***************************************************************************)
(* C9 as amended.  No read in flight is cancelled and the completion that  *)
(* arrives last wins: every successful completion installs the result of   *)
(* its own file, also when the read of a later selection has completed     *)
(* before it -- so after both completions the view reflects B if B's       *)
(* completion arrived last and A if A's did.                               *)
(***************************************************************************)
C9_LastCompletionWins ==
    [][ \A i \in 1 .. Len(reads) :
          /\ (SvgReaderLoad(i) /\ NoParserError(reads[i].file.text))
               => (svgCode' = reads[i].file.text /\ ResultMode')
          /\ PartReaderLoad(i)
               => (svgCode' = reads[i].file.text /\ ResultMode')
          /\ ImgLoad(i)
               => ( /\ currentSvgContent'[2].href = ReadAsDataURL(reads[i].file)
                    /\ ResultMode' ) ]_vars

\* Both reads have completed and the view shows what a superseded read
\* wrote: the earlier selection.
C9_Witness ==
    /\ shownFrom = "stale"
    /\ reads = <<>>
    /\ ResultMode

(***************************************************************************)
(* C10.  No showMsgBox promise is left pending for ever: every promise     *)
(* that is not yet resolved still has its overlay in the document, so that *)
(* OK, Cancel or a click on the overlay resolves it -- also when a second  *)
(* showMsgBox call arrives while a dialog is open.                         *)
(***************************************************************************)
C10_NoPromiseLeftPending ==
    orphaned = {}

(***************************************************************************)
(* C11.  Clicking Clear (script.js) or Reset (part_000) while the          *)
(* placeholder is shown opens no confirmation dialog and leaves the        *)
(* Document State as it is; the click opens a dialog only when a Result is *)
(* shown and never resets the view by itself: the view is reset only when  *)
(* the dialog opened by Clear resolves true.                               *)
(***************************************************************************)
C11_ClearPromptsOnlyAtResult ==
    [][ /\ ((ClearClick \/ ResetClick) /\ PlaceholderMode)
             => UNCHANGED <<viewVars, overlays>>
        /\ ((ClearClick \/ ResetClick) /\ overlays' # overlays)
             => (ResultMode /\ overlays'[1].isConfirm)
        /\ (ClearClick \/ ResetClick)
             => UNCHANGED viewVars
        /\ (MsgBoxTransitionEnd /\ viewVars' # viewVars)
             => ( /\ overlays[1].owner = "clear"
                  /\ overlays[1].closeVal = "true"
                  /\ overlays' = <<>> ) ]_vars

(***************************************************************************)
(* C12.  Notifications are latest-wins without queueing: the visible toast *)
(* (script.js) or alert (part_000) shows the message of the most recent    *)
(* notify call, script.js never has more than one dismissal timer pending, *)
(* and a toast is dismissed exactly the full duration after the most       *)
(* recent notify call: never earlier, so the timer of an earlier notify    *)
(* hides or removes no later toast, and no later than that.                *)
(***************************************************************************)
C12_LatestWinsFullDuration ==
    [][ /\ notification'.show
             => ( /\ notification'.msg = lastNotify'.msg
                  /\ now' <= lastNotify'.at + Duration )
        /\ (notification.show /\ ~notification'.show)
             => now >= lastNotify.at + Duration
        /\ page \in ScriptPages => Cardinality(timers') <= 1 ]_vars

\* A toast that replaced an earlier one is still visible after the earlier
\* one's duration has elapsed.
C12_Witness ==
    /\ notification.show
    /\ lastNotify.prev >= 0
    /\ lastNotify.prev < lastNotify.at
    /\ now > lastNotify.prev + Duration

(***************************************************************************)
(* C13.  When an image of intrinsic width W and height H has been decoded, *)
(* the SVG synthesized by processImageFile has a root <svg> element with   *)
(* width W, height H and viewBox 0 0 W H, and contains exactly one <image> *)
(* element, with width W, height H and href equal to the data URI read     *)
(* from the file.                                                          *)
(***************************************************************************)
C13_WrapperHasIntrinsicSize ==
    [][ \A i \in 1 .. Len(reads) :
          ImgLoad(i) =>
            LET f == reads[i].file
                W == f.img.width
                H == f.img.height
                svg == currentSvgContent'
                images == {k \in DOMAIN svg : svg[k].tag = "image"}
            IN /\ svg[1].tag = "svg"
               /\ svg[1].width = W
               /\ svg[1].height = H
               /\ svg[1].viewBox = <<0, 0, W, H>>
               /\ Cardinality(images) = 1
               /\ \A k \in images :
                    /\ svg[k].width = W
                    /\ svg[k].height = H
                    /\ svg[k].href = <<"data:", f.type[1], "/", f.type[2],
                                       ";base64,", f.name>> ]_vars

\* The 100x50 PNG has been wrapped and is shown.
C13_Witness ==
    /\ page = "image"
    /\ ResultMode
    /\ Len(currentSvgContent) = 2
    /\ currentSvgContent[1].viewBox = <<0, 0, 100, 50>>
    /\ currentSvgContent[2].href[6] = "photo.png"

(***************************************************************************)
(* C14.  On the SVG pages (script.js and part_000), whenever a completed   *)
(* read leaves the page in Result mode the stored text svgCode.value is    *)
(* the full text of the file of that read, token for token, and no other   *)
(* step enters Result mode or touches the stored text of a shown Result:   *)
(* in Result mode the stored text is that of the file whose read completed *)
(* most recently.                                                          *)
(***************************************************************************)
C14_StoredTextIsFileText ==
    [][ /\ \A i \in 1 .. Len(reads) :
             (ReaderLoad(i) /\ page \in SvgPages /\ ResultMode')
               => svgCode' = reads[i].file.text
        /\ ( /\ page \in SvgPages
             /\ ResultMode'
             /\ ~(\E i \in 1 .. Len(reads) : ReaderLoad(i)) )
             => (ResultMode /\ svgCode' = svgCode) ]_vars

\* A Result shows the three tokens of icon.svg, the file read last, while
\* another read is in flight.
C14_Witness ==
    /\ page \in SvgPages
    /\ ResultMode
    /\ svgCode = <<"<svg>", "<circle/>", "</svg>">>
    /\ fileInput = "icon.svg"
    /\ reads # <<>>

(***************************************************************************)
(* C15.  reset is idempotent: every step that runs a reset (resetView of   *)
(* script.js, the window.resetView of the image page, the reset button of  *)
(* part_000) ends at Placeholder with the placeholder visible, the output  *)
(* hidden, the preview empty, stored text and currentSvgContent empty and  *)
(* the file input cleared, and a reset run in that state changes nothing.  *)
(***************************************************************************)
ResetRuns ==
    \/ \E i \in 1 .. Len(reads) : ScriptReaderError(i)
    \/ \E i \in 1 .. Len(reads) :
         SvgReaderLoad(i) /\ ~NoParserError(reads[i].file.text)
    \/ MsgBoxTransitionEnd /\ overlays' = <<>> /\ overlays[1].owner = "clear"
                           /\ overlays[1].closeVal = "true"
    \/ ResetClick

AtReset ==
    /\ PlaceholderMode
    /\ svgPreview = <<>>
    /\ svgCode = <<>>
    /\ currentSvgContent = <<>>
    /\ fileInput = ""

C15_ResetIdempotent ==
    [][ ResetRuns => ( /\ AtReset'
                       /\ AtReset => UNCHANGED <<viewVars, fileInput>> ) ]_vars

(***************************************************************************)
(* C16 as claimed.  From any starting theme, the first visit with no       *)
(* persisted preference included, toggling twice returns the persisted     *)
(* 'theme' entry, both icons and the root 'dark' class to what they were.  *)
(***************************************************************************)
C16_TwoTogglesRestoreAll ==
    Len(themeLog) = 2 => theme = themeLog[1]

(***************************************************************************)
(* C16 as amended.  Toggling twice returns the root 'dark' class and both  *)
(* icons to what they were, and the persisted 'theme' entry to its value   *)
(* if one was persisted; from the first visit, where none was, the entry   *)
(* is not removed again: it holds the value that names the original theme. *)
(***************************************************************************)
C16_TwoTogglesRestore ==
    Len(themeLog) = 2 =>
        LET original == themeLog[1]
        IN /\ theme.dark = original.dark
           /\ theme.icons = original.icons
           /\ theme.stored = IF original.stored # "none" THEN original.stored
                             ELSE IF original.dark THEN "dark" ELSE "light"

\* Two toggles after the first visit: an entry 'light' where there was none
C16_Witness ==
    /\ Len(themeLog) = 2
    /\ themeLog[1].stored = "none"
    /\ theme.stored = "light"
    /\ ~theme.dark

(***************************************************************************)
(* C17.  After one or more theme toggles the persisted 'theme' entry is    *)
(* 'dark' if and only if the root element carries the 'dark' class,        *)
(* exactly one of the two icons is visible, and the entry, written by      *)
(* every toggle, is 'dark' or 'light' and nothing else.                    *)
(***************************************************************************)
C17_PersistedMirrorsRoot ==
    Len(themeLog) >= 1 =>
        /\ theme.stored \in {"dark", "light"}
        /\ (theme.stored = "dark") <=> theme.dark
        /\ theme.icons.darkIconHidden # theme.icons.lightIconHidden

\* part_000 toggled to dark from a persisted 'light': the light icon shows
C17_Witness ==
    /\ page = "part000"
    /\ Len(themeLog) = 1
    /\ themeLog[1].stored = "light"
    /\ theme.stored = "dark"
    /\ theme.dark
    /\ ~theme.icons.lightIconHidden

(***************************************************************************)
(* C18.  In every reachable state exactly one of the placeholder region    *)
(* and the output region is visible (outputPlaceholder / outputContent of  *)
(* script.js, uploadView / previewContainer of part_000), and the preview  *)
(* container is empty whenever the placeholder is the visible one.         *)
(***************************************************************************)
C18_ExactlyOneRegionVisible ==
    /\ placeholderHidden # contentHidden
    /\ ~placeholderHidden => svgPreview = <<>>

\* The image page is back at the placeholder, with an empty preview, after
\* it had shown a Result and a later read failed.
C18_Witness ==
    /\ page = "image"
    /\ ~placeholderHidden
    /\ contentHidden
    /\ svgPreview = <<>>
    /\ currentSvgContent # <<>>
    /\ notification.msg = MsgReadFailed

\* The promise of the Clear dialog resolves false: the overlay that fades
\* out was first answered with Cancel or a click on the overlay
ClearResolvesFalse ==
    /\ MsgBoxTransitionEnd
    /\ overlays' = <<>>
    /\ overlays[1].owner = "clear"
    /\ overlays[1].closeVal = "false"

(***************************************************************************)
(* C19 as claimed.  When the Clear dialog has been answered with Cancel or *)
(* dismissed by a click on the overlay, the Document State is as it was    *)
(* before Clear was clicked; in particular, since Clear opens the dialog   *)
(* only on a Result, the mode is still Result when the dialog has resolved *)
(* false, and the resolution itself changes nothing.                       *)
(***************************************************************************)
C19_CancelKeepsResult ==
    [][ ClearResolvesFalse
          => (ResultMode' /\ UNCHANGED <<viewVars, fileInput>>) ]_vars

(***************************************************************************)
(* C19 as amended.  Answering the Clear dialog with Cancel or a click on   *)
(* the overlay, and the resolution of its promise with false, change       *)
(* nothing of the Document State: mode, stored text / currentSvgContent,   *)
(* preview and file-input selection are what they were just before the     *)
(* answer.  (A read in flight that completes or fails while the dialog is  *)
(* open still takes effect, so the state need not be the one Clear was     *)
(* clicked in, nor the mode Result.)                                       *)
(***************************************************************************)
C19_CancelChangesNothing ==
    [][ (MsgBoxCancel \/ MsgBoxOverlayClick \/ ClearResolvesFalse)
          => UNCHANGED <<viewVars, fileInput>> ]_vars

\* Cancel has been clicked on the Clear dialog, which is fading out, and
\* the Result is still shown.
C19_Witness ==
    /\ overlays # <<>>
    /\ overlays[1].owner = "clear"
    /\ overlays[1].closeVal = "false"
    /\ overlays[1].trans
    /\ ResultMode
    /\ reads = <<>>

====
